---- MODULE Spec2Model ----
(***************************************************************************)
(* Model of utils::lru_cache (src/include/lru_cache.h): a hash index whose *)
(* entries are threaded on an intrusive, circular, sentinel-terminated     *)
(* recency list, and a table of pending replies that coalesces the gets    *)
(* issued for a key whose miss handler has not replied yet.                *)
(*                                                                         *)
(* Pointers (entry_ptr) are modelled as allocation identities: every       *)
(* emplace that creates a map entry takes a fresh identity, so a pointer   *)
(* to an erased entry never compares equal to a live one.                  *)
(*                                                                         *)
(* The cache runs on one thread.  A reply callback runs inside the loop of *)
(* the miss-handler reply lambda and may call back into the cache; the     *)
(* variable stack holds one frame per such loop in progress, and every     *)
(* operation can be taken at top level (empty stack) or from the callback  *)
(* the innermost frame is running.  On a hit get does nothing after the    *)
(* reply returns, so the calls a hit reply makes are the steps that follow *)
(* GetHit.                                                                 *)
(*                                                                         *)
(* A get of the key whose list is being iterated appends to that list      *)
(* (push_back, line 256), which invalidates the iterators of the range-for *)
(* at line 280.  The loop then ends at the end it cached; if it still has  *)
(* replies to call it reads them through invalidated iterators, which is   *)
(* undefined: the call happens (ReturnNext) or the program fails           *)
(* (ReturnFault).  pending_reply_iter is a node iterator and is taken to   *)
(* survive insertions of other keys into pending_replies_.                 *)
(***************************************************************************)
EXTENDS Integers, Sequences, FiniteSets, TLC

\* ---- bounds of the model ----
NumKeys == 2
MaxGets == 3

Keys == 1..NumKeys
\* capacities: from "retain nothing" to "never evict"
Limits == 0..NumKeys
\* the error codes a miss handler reports (no_error is not one of them)
Errors == {1}

\* ---- program constants ----
Sentinel == 0      \* &sentinel_, the address cend() wraps
nullptr == -1      \* the null entry_ptr of a default-constructed node
MapEnd == -2       \* map_.end()
no_error == 0      \* std::error_code{0, ...}
NoValue == 0       \* a null value_uptr_t

VARIABLES
  sentinel_,        \* [older_, newer_]: the links of the sentinel entry
  map_,             \* address -> [first, value_, older_, newer_]
  limit_,           \* capacity
  pending_replies_, \* key -> sequence of queued reply callbacks
  stack,            \* frames of the reply loops in progress, innermost last
  fault,            \* TRUE once the reply loop has read an invalidated iterator
  outstanding,      \* key -> miss-handler calls whose reply has not been invoked
  fetchCount,       \* key -> number of miss-handler invocations so far
  nextCb,           \* identity of the next reply callback passed to get
  cbKey,            \* callback -> the key its get asked for
  invoked,          \* callback -> sequence of <<cursor, error>> it was called with
  fired,            \* callback -> <<>>, or <<cursor, error>> once the reply of its fetch fired
  evicted,          \* keys the last operation evicted
  nextNode,         \* next allocation identity
  nextVal,          \* next value the miss handler produces
  clock,            \* number of accesses so far
  access,           \* resident key -> time of its last access (0 if not resident)
  misused,          \* a miss handler has called its reply function a second time
  retval            \* [key, ptr_]: the key of the last find and the iterator it
                    \* returned; nullptr once the iterator is destroyed

vars == <<sentinel_, map_, limit_, pending_replies_, stack, fault, outstanding,
          fetchCount, nextCb, cbKey, invoked, fired, evicted,
          nextNode, nextVal, clock, access, misused, retval>>

\* ---- the heap: sentinel and map entries, addressed by pointer ----
Heap == [s |-> sentinel_, m |-> map_]

Older(h, p) == IF p = Sentinel THEN h.s.older_ ELSE h.m[p].older_
Newer(h, p) == IF p = Sentinel THEN h.s.newer_ ELSE h.m[p].newer_

SetOlder(h, p, q) ==
  IF p = Sentinel THEN [h EXCEPT !.s.older_ = q]
  ELSE [h EXCEPT !.m[p].older_ = q]

SetNewer(h, p, q) ==
  IF p = Sentinel THEN [h EXCEPT !.s.newer_ = q]
  ELSE [h EXCEPT !.m[p].newer_ = q]

\* map_.find(key): the address of the entry whose key is key, or map_.end()
MapFind(m, key) ==
  IF \E a \in DOMAIN m : m[a].first = key
  THEN CHOOSE a \in DOMAIN m : m[a].first = key
  ELSE MapEnd

\* map_.erase(it)
MapErase(m, it) == [a \in DOMAIN m \ {it} |-> m[a]]

size(m) == Cardinality(DOMAIN m)

cend == Sentinel
cbegin(h) == h.s.older_

\* mutant of extract: the older neighbour is not linked to the newer one
extract_NoForwardLink(h, node) ==
  LET older == Older(h, node)
      newer == Newer(h, node)
  IN  SetOlder(h, newer, older)

extract(h, node) ==
  LET older == Older(h, node)
      newer == Newer(h, node)
      h1 == SetOlder(h, newer, older)
  IN  SetNewer(h1, older, newer)

insert_at_head(h, node) ==
  LET front == h.s.older_
      h1 == SetOlder(h, node, front)
      h2 == SetNewer(h1, node, Sentinel)
      h3 == SetNewer(h2, front, node)
  IN  SetOlder(h3, Sentinel, node)

\* mutant of remove: the entry is erased while still linked
remove_NoExtract(h, it) == [h EXCEPT !.m = MapErase(h.m, it)]

remove(h, it) ==
  LET h1 == extract(h, it)
  IN  [h1 EXCEPT !.m = MapErase(h1.m, it)]

\* mutant of evict_lru: the victim is taken from the wrong end of the list
evict_lru_Head(h) ==
  LET lru == h.s.older_
      found == IF lru = Sentinel THEN MapEnd ELSE MapFind(h.m, h.m[lru].first)
  IN  remove(h, found)

evict_lru(h) ==
  LET lru == h.s.newer_
      found == IF lru = Sentinel THEN MapEnd ELSE MapFind(h.m, h.m[lru].first)
  IN  remove(h, found)

\* mutant of touch: the entry stays where it is
touch_Noop(h, node) == h

touch(h, node) == insert_at_head(extract(h, node), node)

\* mutant of enforce_limit: the comparison is off by one
enforce_limit_OffByOne(h, limit) ==
  IF size(h.m) > limit + 1 THEN evict_lru(h) ELSE h

RECURSIVE enforce_limit(_, _)
enforce_limit(h, limit) ==
  IF size(h.m) > limit THEN enforce_limit(evict_lru(h), limit) ELSE h

\* mutant of MapEmplace: the value is not moved into the new node
MapEmplace_NoValue(m, key, val, addr) ==
  IF MapFind(m, key) # MapEnd THEN m
  ELSE [a \in DOMAIN m \cup {addr} |->
          IF a = addr
          THEN [first |-> key, value_ |-> NoValue, older_ |-> nullptr, newer_ |-> nullptr]
          ELSE m[a]]

\* map_.emplace(key, value): a new entry at address addr unless key is present
MapEmplace(m, key, val, addr) ==
  IF MapFind(m, key) # MapEnd THEN m
  ELSE [a \in DOMAIN m \cup {addr} |->
          IF a = addr
          THEN [first |-> key, value_ |-> val, older_ |-> nullptr, newer_ |-> nullptr]
          ELSE m[a]]

\* mutant of add_entry: the iterator returned is the head before the insertion
add_entry_OldHead(h, key, val, addr, limit) ==
  LET m1 == MapEmplace(h.m, key, val, addr)
      emplaced == MapFind(m1, key)
      h1 == insert_at_head([h EXCEPT !.m = m1], emplaced)
  IN  [heap |-> enforce_limit(h1, limit), iter |-> cbegin(h)]

\* add_entry: the heap after the insertion, and the iterator it returns
add_entry(h, key, val, addr, limit) ==
  LET m1 == MapEmplace(h.m, key, val, addr)
      emplaced == MapFind(m1, key)
      h1 == insert_at_head([h EXCEPT !.m = m1], emplaced)
  IN  [heap |-> enforce_limit(h1, limit), iter |-> emplaced]

\* ---- traversal, as list_integrity_check and list_check do it ----
RECURSIVE Walk(_, _, _)
Walk(h, p, fuel) ==
  IF p = Sentinel \/ fuel = 0 \/ p \notin DOMAIN h.m THEN <<>>
  ELSE <<p>> \o Walk(h, h.m[p].older_, fuel - 1)

\* addresses visited from cbegin() by ++ until cend(), at most size()+1 steps
Traversal == Walk(Heap, cbegin(Heap), size(map_) + 1)
TraversalKeys == [i \in 1..Len(Traversal) |-> map_[Traversal[i]].first]

KeysOf(m) == {m[a].first : a \in DOMAIN m}
ResidentKeys == KeysOf(map_)
PendingKeys == DOMAIN pending_replies_
Range(f) == {f[x] : x \in DOMAIN f}

\* no iterator is alive: the default-constructed state, ptr_ == nullptr
NoIter == [key |-> 0, ptr_ |-> nullptr]

\* ---- construction (lru_cache::lru_cache) ----
EmptyMap == [a \in {} |-> nullptr]
EmptyPending == [k \in {} |-> <<>>]
SelfLoop == [older_ |-> Sentinel, newer_ |-> Sentinel]

Init ==
  /\ limit_ \in Limits
  /\ sentinel_ = SelfLoop
  /\ map_ = EmptyMap
  /\ pending_replies_ = EmptyPending
  /\ stack = <<>>
  /\ fault = FALSE
  /\ outstanding = [k \in Keys |-> 0]
  /\ fetchCount = [k \in Keys |-> 0]
  /\ nextCb = 1
  /\ cbKey = [c \in 1..MaxGets |-> 0]
  /\ invoked = [c \in 1..MaxGets |-> <<>>]
  /\ fired = [c \in 1..MaxGets |-> <<>>]
  /\ evicted = {}
  /\ nextNode = 1
  /\ nextVal = 1
  /\ clock = 0
  /\ access = [k \in Keys |-> 0]
  /\ misused = FALSE
  /\ retval = NoIter

\* ---- bookkeeping shared by the actions ----
\* the cache can be called: the program has not failed, and the caller has
\* dropped the iterator its last find returned
Callable == ~fault /\ ~misused /\ retval = NoIter

\* mutant of Call: the reply is called a second time
Call_Twice(c, iter, err) ==
  invoked' = [invoked EXCEPT ![c] = Append(Append(@, <<iter, err>>), <<iter, err>>)]

\* the callback c is called with (iter, err)
Call(c, iter, err) ==
  invoked' = [invoked EXCEPT ![c] = Append(@, <<iter, err>>)]

\* last-access times after the heap became h; key (if not 0) was just accessed
Accessed(h, key) ==
  [k \in Keys |->
     IF MapFind(h.m, k) = MapEnd THEN 0
     ELSE IF k = key THEN clock + 1 ELSE access[k]]

SetHeap(h) ==
  /\ sentinel_' = h.s
  /\ map_' = h.m

PendingPut(pend, key, list) ==
  [k \in DOMAIN pend \cup {key} |-> IF k = key THEN list ELSE pend[k]]

\* mutant of PendingErase: the whole table is cleared
PendingErase_All(pend, key) == [k \in {} |-> pend[k]]

PendingErase(pend, key) == [k \in DOMAIN pend \ {key} |-> pend[k]]

\* the frames of the reply loops that iterate over key's list get stale
\* iterators when that list grows (push_back may reallocate)
MarkStale(stk, key) ==
  [i \in 1..Len(stk) |->
     IF stk[i].key = key THEN [stk[i] EXCEPT !.stale = TRUE] ELSE stk[i]]

\* mutant of Reply: an entry is added also when the reply carries no value
Reply_InsertsOnError(key, val, err, pend) ==
  LET r == add_entry(Heap, key, val, nextNode, limit_)
      result_iter == r.iter
      list == pend[key]
  IN  /\ SetHeap(r.heap)
      /\ nextNode' = IF MapFind(map_, key) = MapEnd
                     THEN nextNode + 1 ELSE nextNode
      /\ clock' = IF val # NoValue THEN clock + 1 ELSE clock
      /\ access' = Accessed(r.heap, IF val # NoValue THEN key ELSE 0)
      /\ fired' = [c \in 1..MaxGets |->
                     IF c \in Range(list) THEN <<result_iter, err>> ELSE fired[c]]
      /\ evicted' = (KeysOf(map_) \cup {key})
                       \ KeysOf(r.heap.m)
      /\ IF list = <<>>
         THEN /\ pending_replies_' = PendingErase(pend, key)
              /\ UNCHANGED <<stack, invoked>>
         ELSE /\ pending_replies_' = pend
              /\ Call(list[1], result_iter, err)
              /\ stack' = Append(stack, [key |-> key, result_iter |-> result_iter,
                                         err |-> err, idx |-> 1, end |-> Len(list),
                                         stale |-> FALSE])

\* ---- the miss-handler reply lambda (lru_cache.h 270-285), up to the ----
\* ---- call of the first queued reply; pend is pending_replies_ then  ----
Reply(key, val, err, pend) ==
  LET r == IF val # NoValue
           THEN add_entry(Heap, key, val, nextNode, limit_)
           ELSE [heap |-> Heap, iter |-> cend]
      result_iter == r.iter
      list == pend[key]
  IN  /\ SetHeap(r.heap)
      /\ nextNode' = IF val # NoValue /\ MapFind(map_, key) = MapEnd
                     THEN nextNode + 1 ELSE nextNode
      /\ clock' = IF val # NoValue THEN clock + 1 ELSE clock
      /\ access' = Accessed(r.heap, IF val # NoValue THEN key ELSE 0)
      /\ fired' = [c \in 1..MaxGets |->
                     IF c \in Range(list) THEN <<result_iter, err>> ELSE fired[c]]
      /\ evicted' = (KeysOf(map_) \cup (IF val # NoValue THEN {key} ELSE {}))
                       \ KeysOf(r.heap.m)
      /\ IF list = <<>>
         THEN /\ pending_replies_' = PendingErase(pend, key)
              /\ UNCHANGED <<stack, invoked>>
         ELSE /\ pending_replies_' = pend
              /\ Call(list[1], result_iter, err)
              /\ stack' = Append(stack, [key |-> key, result_iter |-> result_iter,
                                         err |-> err, idx |-> 1, end |-> Len(list),
                                         stale |-> FALSE])

\* what the miss handler hands to the reply: a value, or no value and an error
ReplyVal(outcome) == IF outcome = no_error THEN nextVal ELSE NoValue

\* mutant of GetHit: the reply is not called on a hit
GetHit_NoReply(key) ==
  LET hit == MapFind(map_, key)
      h == touch(Heap, hit)
  IN  /\ Callable
      /\ nextCb <= MaxGets
      /\ hit # MapEnd
      /\ SetHeap(h)
      /\ cbKey' = [cbKey EXCEPT ![nextCb] = key]
      /\ nextCb' = nextCb + 1
      /\ clock' = clock + 1
      /\ access' = Accessed(h, key)
      /\ evicted' = {}
      /\ UNCHANGED <<limit_, misused, pending_replies_, stack, fault, outstanding,
                     fetchCount, invoked, fired, nextNode, nextVal, retval>>

\* ---- get (lru_cache.h 238-288) ----
GetHit(key) ==
  LET hit == MapFind(map_, key)
      h == touch(Heap, hit)
  IN  /\ Callable
      /\ nextCb <= MaxGets
      /\ hit # MapEnd
      /\ SetHeap(h)
      /\ Call(nextCb, hit, no_error)
      /\ cbKey' = [cbKey EXCEPT ![nextCb] = key]
      /\ nextCb' = nextCb + 1
      /\ clock' = clock + 1
      /\ access' = Accessed(h, key)
      /\ evicted' = {}
      /\ UNCHANGED <<limit_, misused, pending_replies_, stack, fault, outstanding,
                     fetchCount, fired, nextNode, nextVal, retval>>

GetPending(key) ==
  /\ Callable
  /\ nextCb <= MaxGets
  /\ MapFind(map_, key) = MapEnd
  /\ key \in DOMAIN pending_replies_
  /\ pending_replies_' = [pending_replies_ EXCEPT ![key] = Append(@, nextCb)]
  /\ stack' = MarkStale(stack, key)
  /\ cbKey' = [cbKey EXCEPT ![nextCb] = key]
  /\ nextCb' = nextCb + 1
  /\ evicted' = {}
  /\ UNCHANGED <<sentinel_, map_, limit_, misused, fault, outstanding, fetchCount,
                 invoked, fired, nextNode, nextVal, clock, access, retval>>

\* mutant of GetMissDeferred: the pending table is not consulted
GetMissDeferred_NoPendingCheck(key) ==
  /\ Callable
  /\ nextCb <= MaxGets
  /\ MapFind(map_, key) = MapEnd
  /\ pending_replies_' = PendingPut(pending_replies_, key, <<nextCb>>)
  /\ fetchCount' = [fetchCount EXCEPT ![key] = @ + 1]
  /\ outstanding' = [outstanding EXCEPT ![key] = @ + 1]
  /\ cbKey' = [cbKey EXCEPT ![nextCb] = key]
  /\ nextCb' = nextCb + 1
  /\ evicted' = {}
  /\ UNCHANGED <<sentinel_, map_, limit_, misused, stack, fault, invoked,
                 fired, nextNode, nextVal, clock, access, retval>>

\* mutant of GetMissDeferred: the index is not looked up before the fetch
GetMissDeferred_NoHitCheck(key) ==
  /\ Callable
  /\ nextCb <= MaxGets
  /\ key \notin DOMAIN pending_replies_
  /\ pending_replies_' = PendingPut(pending_replies_, key, <<nextCb>>)
  /\ fetchCount' = [fetchCount EXCEPT ![key] = @ + 1]
  /\ outstanding' = [outstanding EXCEPT ![key] = @ + 1]
  /\ cbKey' = [cbKey EXCEPT ![nextCb] = key]
  /\ nextCb' = nextCb + 1
  /\ evicted' = {}
  /\ UNCHANGED <<sentinel_, map_, limit_, misused, stack, fault, invoked,
                 fired, nextNode, nextVal, clock, access, retval>>

\* the miss handler keeps the reply function and returns
GetMissDeferred(key) ==
  /\ Callable
  /\ nextCb <= MaxGets
  /\ MapFind(map_, key) = MapEnd
  /\ key \notin DOMAIN pending_replies_
  /\ pending_replies_' = PendingPut(pending_replies_, key, <<nextCb>>)
  /\ fetchCount' = [fetchCount EXCEPT ![key] = @ + 1]
  /\ outstanding' = [outstanding EXCEPT ![key] = @ + 1]
  /\ cbKey' = [cbKey EXCEPT ![nextCb] = key]
  /\ nextCb' = nextCb + 1
  /\ evicted' = {}
  /\ UNCHANGED <<sentinel_, map_, limit_, misused, stack, fault, invoked,
                 fired, nextNode, nextVal, clock, access, retval>>

\* the miss handler calls the reply function before it returns
GetMissSync(key, outcome) ==
  /\ Callable
  /\ nextCb <= MaxGets
  /\ MapFind(map_, key) = MapEnd
  /\ key \notin DOMAIN pending_replies_
  /\ fetchCount' = [fetchCount EXCEPT ![key] = @ + 1]
  /\ cbKey' = [cbKey EXCEPT ![nextCb] = key]
  /\ nextCb' = nextCb + 1
  /\ Reply(key, ReplyVal(outcome), outcome,
           PendingPut(pending_replies_, key, <<nextCb>>))
  /\ nextVal' = IF outcome = no_error THEN nextVal + 1 ELSE nextVal
  /\ UNCHANGED <<limit_, misused, fault, outstanding, retval>>

\* ---- a deferred miss handler invokes its reply function ----
Complete(key, outcome) ==
  /\ Callable
  /\ outstanding[key] > 0
  /\ outstanding' = [outstanding EXCEPT ![key] = @ - 1]
  /\ Reply(key, ReplyVal(outcome), outcome, pending_replies_)
  /\ nextVal' = IF outcome = no_error THEN nextVal + 1 ELSE nextVal
  /\ UNCHANGED <<limit_, misused, fault, fetchCount, nextCb, cbKey, retval>>

\* ---- the reply running in the innermost loop returns (lru_cache.h 280-284) ----
Top == stack[Len(stack)]
Pop == SubSeq(stack, 1, Len(stack) - 1)

\* the loop moves on to the next queued reply and calls it
ReturnNext ==
  /\ Callable
  /\ stack # <<>>
  /\ Top.idx < Top.end
  /\ Call(pending_replies_[Top.key][Top.idx + 1], Top.result_iter, Top.err)
  /\ stack' = [stack EXCEPT ![Len(stack)].idx = @ + 1]
  /\ evicted' = {}
  /\ UNCHANGED <<sentinel_, map_, limit_, misused, pending_replies_, fault, outstanding,
                 fetchCount, nextCb, cbKey, fired, nextNode, nextVal, clock,
                 access, retval>>

\* the loop moves on through an iterator that a push_back invalidated:
\* undefined behaviour, here the outcome in which the call does not happen
\* and the lambda is left abnormally (ReturnNext is the outcome in which the
\* old storage still holds the reply)
ReturnFault ==
  /\ Callable
  /\ stack # <<>>
  /\ Top.idx < Top.end
  /\ Top.stale
  /\ fault' = TRUE
  /\ stack' = <<>>
  /\ evicted' = {}
  /\ UNCHANGED <<sentinel_, map_, limit_, misused, pending_replies_, outstanding,
                 fetchCount, nextCb, cbKey, invoked, fired, nextNode, nextVal,
                 clock, access, retval>>

\* mutant of ReturnLast: the lambda returns without erasing the list
ReturnLast_NoErase ==
  /\ Callable
  /\ stack # <<>>
  /\ Top.idx >= Top.end
  /\ stack' = Pop
  /\ evicted' = {}
  /\ UNCHANGED <<sentinel_, map_, limit_, misused, pending_replies_, fault, outstanding,
                 fetchCount, nextCb, cbKey, invoked, fired, nextNode, nextVal,
                 clock, access, retval>>

\* the loop is over: the list of the key is erased and the lambda returns
ReturnLast ==
  /\ Callable
  /\ stack # <<>>
  /\ Top.idx >= Top.end
  /\ pending_replies_' = PendingErase(pending_replies_, Top.key)
  /\ stack' = Pop
  /\ evicted' = {}
  /\ UNCHANGED <<sentinel_, map_, limit_, misused, fault, outstanding, fetchCount,
                 nextCb, cbKey, invoked, fired, nextNode, nextVal, clock,
                 access, retval>>

\* mutant of Find: the lookup touches the entry, as a get hit does
Find_Touch(key) ==
  LET hit == MapFind(map_, key)
      h == IF hit # MapEnd THEN touch(Heap, hit) ELSE Heap
  IN  /\ Callable
      /\ retval' = [key |-> key, ptr_ |-> IF hit # MapEnd THEN hit ELSE cend]
      /\ SetHeap(h)
      /\ evicted' = {}
      /\ UNCHANGED <<limit_, misused, pending_replies_, stack, fault,
                     outstanding, fetchCount, nextCb, cbKey, invoked, fired,
                     nextNode, nextVal, clock, access>>

\* ---- find (lru_cache.h 290-305) ----
Find(key) ==
  LET hit == MapFind(map_, key)
  IN  /\ Callable
      /\ retval' = [key |-> key, ptr_ |-> IF hit # MapEnd THEN hit ELSE cend]
      /\ evicted' = {}
      /\ UNCHANGED <<sentinel_, map_, limit_, misused, pending_replies_, stack, fault,
                     outstanding, fetchCount, nextCb, cbKey, invoked, fired,
                     nextNode, nextVal, clock, access>>

\* the caller destroys the iterator find returned (~const_iterator, lru_cache.h 118-121)
FindReturn ==
  /\ retval # NoIter
  /\ retval' = NoIter
  /\ UNCHANGED <<sentinel_, map_, limit_, misused, pending_replies_, stack, fault,
                 outstanding, fetchCount, nextCb, cbKey, invoked, fired,
                 evicted, nextNode, nextVal, clock, access>>

\* mutant of invalidate: the pending replies of the key are dropped as well
invalidate_DropsPending(key) ==
  LET fit == MapFind(map_, key)
      h == IF fit # MapEnd THEN remove(Heap, fit) ELSE Heap
  IN  /\ Callable
      /\ SetHeap(h)
      /\ pending_replies_' = PendingErase(pending_replies_, key)
      /\ access' = Accessed(h, 0)
      /\ evicted' = {}
      /\ UNCHANGED <<limit_, misused, stack, fault, outstanding,
                     fetchCount, nextCb, cbKey, invoked, fired, nextNode,
                     nextVal, clock, retval>>

\* ---- invalidate (lru_cache.h 307-314) ----
invalidate(key) ==
  LET fit == MapFind(map_, key)
      h == IF fit # MapEnd THEN remove(Heap, fit) ELSE Heap
  IN  /\ Callable
      /\ SetHeap(h)
      /\ access' = Accessed(h, 0)
      /\ evicted' = {}
      /\ UNCHANGED <<limit_, misused, pending_replies_, stack, fault, outstanding,
                     fetchCount, nextCb, cbKey, invoked, fired, nextNode,
                     nextVal, clock, retval>>

\* mutant of flush: the pending replies are cleared with the entries
flush_ClearsPending ==
  /\ Callable
  /\ map_' = EmptyMap
  /\ sentinel_' = SelfLoop
  /\ pending_replies_' = EmptyPending
  /\ access' = [k \in Keys |-> 0]
  /\ evicted' = {}
  /\ UNCHANGED <<limit_, misused, stack, fault, outstanding,
                 fetchCount, nextCb, cbKey, invoked, fired, nextNode, nextVal,
                 clock, retval>>

\* ---- flush (lru_cache.h 229-236) ----
flush ==
  /\ Callable
  /\ map_' = EmptyMap
  /\ sentinel_' = SelfLoop
  /\ access' = [k \in Keys |-> 0]
  /\ evicted' = {}
  /\ UNCHANGED <<limit_, misused, pending_replies_, stack, fault, outstanding,
                 fetchCount, nextCb, cbKey, invoked, fired, nextNode, nextVal,
                 clock, retval>>

Outcomes == {no_error} \cup Errors

Next ==
  \/ \E key \in Keys : GetHit(key)
  \/ \E key \in Keys : GetPending(key)
  \/ \E key \in Keys : GetMissDeferred(key)
  \/ \E key \in Keys, outcome \in Outcomes : GetMissSync(key, outcome)
  \/ \E key \in Keys, outcome \in Outcomes : Complete(key, outcome)
  \/ ReturnNext
  \/ ReturnFault
  \/ ReturnLast
  \/ \E key \in Keys : Find(key)
  \/ FindReturn
  \/ \E key \in Keys : invalidate(key)
  \/ flush

Spec == Init /\ [][Next]_vars

\* ---- misuse: a miss handler calls its reply function a second time, with a
\* ---- value, while the key is in the index (lru_cache.h 270-285).  The
\* ---- model follows the program up to the end of that call.
CompleteAgain(key, crash) ==
  LET r == add_entry(Heap, key, nextVal, nextNode, limit_)
  IN  /\ Callable
      /\ fetchCount[key] > outstanding[key]
      /\ MapFind(map_, key) # MapEnd
      /\ SetHeap(r.heap)
      /\ nextVal' = nextVal + 1
      /\ misused' = TRUE
      /\ evicted' = {}
      /\ IF key \in DOMAIN pending_replies_
         THEN \* a reply of the first call is still running: the list is
              \* found, each of its replies is called again, and it is erased
              /\ ~crash
              /\ invoked' = [c \in 1..MaxGets |->
                               IF c \in Range(pending_replies_[key])
                               THEN Append(invoked[c], <<r.iter, no_error>>)
                               ELSE invoked[c]]
              /\ pending_replies_' = PendingErase(pending_replies_, key)
              /\ UNCHANGED <<stack, fault>>
         ELSE \* pending_replies_.find returns end() and is dereferenced:
              \* undefined behaviour, the program fails or goes on as if the
              \* list were empty
              /\ fault' = crash
              /\ stack' = IF crash THEN <<>> ELSE stack
              /\ UNCHANGED <<invoked, pending_replies_>>
      /\ UNCHANGED <<limit_, outstanding, fetchCount, nextCb, cbKey, fired,
                     nextNode, clock, access, retval>>

NextMisuse ==
  \/ \E key \in Keys : GetHit(key)
  \/ \E key \in Keys : GetPending(key)
  \/ \E key \in Keys : GetMissDeferred(key)
  \/ \E key \in Keys, outcome \in Outcomes : GetMissSync(key, outcome)
  \/ \E key \in Keys, outcome \in Outcomes : Complete(key, outcome)
  \/ ReturnNext
  \/ ReturnFault
  \/ ReturnLast
  \/ \E key \in Keys : Find(key)
  \/ FindReturn
  \/ \E key \in Keys : invalidate(key)
  \/ flush
  \/ \E key \in Keys, crash \in BOOLEAN : CompleteAgain(key, crash)

SpecMisuse == Init /\ [][NextMisuse]_vars

\* ======================= properties =======================
Registered == 1..(nextCb - 1)
Valid(p) == p = Sentinel \/ p \in DOMAIN map_
GetOf(key) == nextCb' = nextCb + 1 /\ cbKey'[nextCb] = key

\* C1: at most one fetch is outstanding per key: the miss handler is invoked
\* for k only by a get(k) that finds k neither in the index nor in the pending
\* table, and once per such get; a get(k) that finds k in the pending table
\* only appends its callback and invokes no miss handler.
C1_FetchOnlyOnFirstMiss ==
  \A k \in Keys :
    /\ fetchCount'[k] # fetchCount[k] =>
         /\ GetOf(k)
         /\ fetchCount'[k] = fetchCount[k] + 1
         /\ k \notin ResidentKeys
         /\ k \notin PendingKeys
    /\ (GetOf(k) /\ outstanding[k] > 0) =>
         /\ fetchCount' = fetchCount
         /\ outstanding' = outstanding
         /\ pending_replies_' =
              [pending_replies_ EXCEPT ![k] = Append(@, nextCb)]
    /\ outstanding'[k] <= 1
    /\ outstanding'[k] > 0 => k \in DOMAIN pending_replies_'
\* C1 (as a property of every step): at most one fetch per key is outstanding
\* and only the first miss of a key invokes the miss handler.
C1_SingleFetch == [][C1_FetchOnlyOnFirstMiss]_vars

\* C1 witness: two gets are queued behind the one fetch of a key
C1_Witness ==
  \E k \in Keys :
    /\ k \in PendingKeys
    /\ Len(pending_replies_[k]) >= 2
    /\ fetchCount[k] = 1
    /\ outstanding[k] = 1

\* the callbacks a reply loop in progress iterates over
Active(c) ==
  \E i \in DOMAIN stack :
    /\ stack[i].key \in PendingKeys
    /\ \E j \in 1..stack[i].end : pending_replies_[stack[i].key][j] = c

\* C2: when the reply of a fetch fires, the callbacks queued for its key are
\* called in the order of their registration, each exactly once and each with
\* the same (cursor, error) pair, all before that invocation of the reply ends.
C2_FifoFanOut ==
  /\ \A i \in DOMAIN stack :
       LET f == stack[i]
           list == pending_replies_[f.key]
       IN  \A j \in 1..f.end :
             invoked[list[j]] =
               IF j <= f.idx THEN << <<f.result_iter, f.err>> >> ELSE <<>>
  /\ \A k \in PendingKeys :
       \A i, j \in DOMAIN pending_replies_[k] :
         i < j => pending_replies_[k][i] < pending_replies_[k][j]
  /\ \A c \in Registered :
       (fired[c] # <<>> /\ ~Active(c)) => invoked[c] = <<fired[c]>>

\* C3: once every fetch has replied and every reply has returned, each
\* callback passed to get has been called exactly once; while the fetch of a
\* key is outstanding none of the callbacks queued for it has been called;
\* no callback is ever called twice.
C3_EveryReplyOnce ==
  /\ (stack = <<>> /\ \A k \in Keys : outstanding[k] = 0) =>
       \A c \in Registered : Len(invoked[c]) = 1
  /\ \A k \in Keys :
       outstanding[k] > 0 =>
         /\ k \in PendingKeys
         /\ \A j \in DOMAIN pending_replies_[k] :
              invoked[pending_replies_[k][j]] = <<>>
  /\ \A c \in Registered : Len(invoked[c]) <= 1

\* C4: size() <= limit() between operations and whenever a reply callback runs.
C4_SizeWithinLimit == size(map_) <= limit_

\* C4 witness: the cache is full and the last insertion had to evict
C4_Witness == limit_ >= 1 /\ size(map_) = limit_ /\ evicted # {}

\* C5: walking from cbegin() by ++ reaches cend() after exactly size() steps
\* and visits exactly the entries of the index, each once; cbegin() = cend()
\* exactly when size() = 0.
C5_ListIndexLockstep ==
  /\ Len(Traversal) = size(map_)
  /\ Range(Traversal) = DOMAIN map_
  /\ \A i, j \in DOMAIN Traversal : i # j => Traversal[i] # Traversal[j]
  /\ Len(Traversal) > 0 => map_[Traversal[Len(Traversal)]].older_ = cend
  /\ (cbegin(Heap) = cend) <=> (size(map_) = 0)

\* C5 witness: two entries are resident after an earlier entry was removed
C5_Witness == size(map_) = 2 /\ nextNode > 3 /\ Len(Traversal) = 2

\* C6: for every entry and for the sentinel, e.newer.older = e and
\* e.older.newer = e; an empty list is the sentinel's self-loop.
C6_Linkage ==
  /\ \A e \in DOMAIN map_ \cup {Sentinel} :
       /\ Valid(Newer(Heap, e))
       /\ Valid(Older(Heap, e))
       /\ Older(Heap, Newer(Heap, e)) = e
       /\ Newer(Heap, Older(Heap, e)) = e
  /\ size(map_) = 0 => sentinel_ = SelfLoop

\* C6 witness: two entries are linked and one of them has been re-linked by a hit
C6_Witness == size(map_) = 2 /\ clock >= 3 /\ sentinel_.older_ # sentinel_.newer_

\* C7: traversal lists the resident keys in strictly decreasing order of
\* their last access (insertion at completion, or get hit).
C7_RecencyOrder ==
  /\ Range(TraversalKeys) = ResidentKeys
  /\ \A i, j \in DOMAIN TraversalKeys :
       i < j => access[TraversalKeys[i]] > access[TraversalKeys[j]]

\* C7 witness: the entry inserted first is in front of the one inserted later
C7_Witness ==
  /\ Len(Traversal) = 2
  /\ Traversal[1] < Traversal[2]

Front(seq) == SubSeq(seq, 1, Len(seq) - 1)

\* C8: a completion that inserts a new key into a cache of capacity >= 1 puts
\* the new entry at the head; if the cache was full exactly the tail is
\* evicted, otherwise nothing is; the other entries keep their order.
C8_InsertStep ==
  (nextNode' # nextNode /\ limit_ >= 1) =>
    /\ nextNode \in DOMAIN map_'
    /\ sentinel_'.older_ = nextNode
    /\ IF size(map_) = limit_
       THEN /\ TraversalKeys' = <<map_'[nextNode].first>> \o Front(TraversalKeys)
            /\ evicted' = {TraversalKeys[Len(TraversalKeys)]}
       ELSE /\ TraversalKeys' = <<map_'[nextNode].first>> \o TraversalKeys
            /\ evicted' = {}
C9_HitStep ==
  \A k \in Keys :
    (GetOf(k) /\ k \in ResidentKeys) =>
      LET e == MapFind(map_, k)
      IN  /\ sentinel_'.older_ = e
          /\ invoked'[nextCb] = << <<e, no_error>> >>
          /\ DOMAIN map_' = DOMAIN map_
          /\ \A a \in DOMAIN map_ :
               map_'[a].first = map_[a].first /\ map_'[a].value_ = map_[a].value_
          /\ fetchCount' = fetchCount
          /\ outstanding' = outstanding
          /\ pending_replies_' = pending_replies_
          /\ stack' = stack
\* C9 (as a property of every step): a hit touches the entry, replies once
\* and changes nothing else.
C9_Hit == [][C9_HitStep]_vars

\* C9 witness: a callback was called without ever being queued, and its entry
\* was moved in front of an entry inserted later
C9_Witness ==
  /\ \E c \in Registered : fired[c] = <<>> /\ invoked[c] # <<>>
  /\ size(map_) = 2
  /\ sentinel_.older_ < sentinel_.newer_

\* C10: when a fetch replies with no value and an error, every waiter queued
\* for it gets the end cursor and that error, and no entry is created.
C10_ErrorFanOut ==
  \A c \in Registered :
    (fired[c] # <<>> /\ fired[c][2] # no_error) =>
      /\ fired[c][1] = cend
      /\ ~Active(c) => invoked[c] = << <<cend, fired[c][2]>> >>

\* C11: find(k) returns the entry of k if k is in the index and the end cursor
\* otherwise, and changes neither the entries, their order, the pending table
\* nor the number of miss-handler calls.
C11_FindStep ==
  (retval = NoIter /\ retval' # NoIter) =>
    LET k == retval'.key
        p == retval'.ptr_
    IN  /\ IF \E a \in DOMAIN map_ : map_[a].first = k
           THEN p \in DOMAIN map_ /\ map_[p].first = k
           ELSE p = cend
        /\ map_' = map_
        /\ sentinel_' = sentinel_
        /\ TraversalKeys' = TraversalKeys
        /\ pending_replies_' = pending_replies_
        /\ fetchCount' = fetchCount
        /\ outstanding' = outstanding
        /\ invoked' = invoked
\* C11 (as a property of every step): find is a pure lookup.
C11_FindPure == [][C11_FindStep]_vars

\* C11 witness: find has returned an entry that is not the head of the list
C11_Witness ==
  /\ retval # NoIter
  /\ retval.ptr_ # cend
  /\ retval.ptr_ # sentinel_.older_

\* keys of seq without k, in the same order
Without(seq, k) == SelectSeq(seq, LAMBDA x : x # k)

\* a reply lambda starts in this step / the innermost one returns in this step
\* (a lambda that the program's failure cuts short does not return)
Fires == Len(stack') = Len(stack) + 1
Returns == ~fault' /\ Len(stack') = Len(stack) - 1

\* what a completion does with the list it finds: it inserts a supplied value,
\* iterates over the whole list, calls the first reply at once and, when it
\* returns, has called every reply of the list once and erased the list
CompletionReplies ==
  /\ Fires =>
       LET f == stack'[Len(stack')]
           list == pending_replies_'[f.key]
       IN  /\ f.key \in PendingKeys => list = pending_replies_[f.key]
           /\ f.end = Len(list)
           /\ f.end >= 1
           /\ invoked'[list[1]] = << <<f.result_iter, f.err>> >>
           /\ f.err = no_error =>
                /\ nextNode' = nextNode + 1
                /\ limit_ >= 1 =>
                     /\ f.key \in ResidentKeys'
                     /\ map_'[f.result_iter].first = f.key
                     /\ map_'[f.result_iter].value_ = nextVal
  /\ Returns =>
       /\ \A j \in 1..Top.end : Len(invoked[pending_replies_[Top.key][j]]) = 1
       /\ Top.key \notin PendingKeys'

\* C12: invalidate(k) removes k from the index and the list when it is there,
\* keeping the order of the other entries, and does nothing when it is not;
\* it never touches the pending table, so a fetch outstanding for k keeps its
\* list and its completion inserts the value and calls the queued replies.
C12_InvalidateStep ==
  \A k \in Keys :
    invalidate(k) =>
      /\ pending_replies_' = pending_replies_
      /\ outstanding' = outstanding
      /\ fetchCount' = fetchCount
      /\ invoked' = invoked
      /\ IF k \in ResidentKeys
         THEN /\ ResidentKeys' = ResidentKeys \ {k}
              /\ size(map_') = size(map_) - 1
              /\ TraversalKeys' = Without(TraversalKeys, k)
              /\ \A a \in DOMAIN map_' : map_'[a].value_ = map_[a].value_
         ELSE /\ map_' = map_
              /\ sentinel_' = sentinel_
C13_FlushStep ==
  flush =>
    /\ size(map_') = 0
    /\ sentinel_'.older_ = Sentinel
    /\ sentinel_'.newer_ = Sentinel
    /\ TraversalKeys' = <<>>
    /\ pending_replies_' = pending_replies_
    /\ outstanding' = outstanding
    /\ fetchCount' = fetchCount
    /\ invoked' = invoked
    /\ stack' = stack
C14_PendingState ==
  /\ \A k \in PendingKeys : pending_replies_[k] # <<>>
  /\ \A k \in Keys : outstanding[k] > 0 => k \in PendingKeys
  /\ \A k \in Keys : outstanding[k] <= 1
  /\ (stack = <<>> /\ ~fault) =>
        \A k \in Keys : k \in PendingKeys <=> outstanding[k] > 0
\* C14: an entry of the pending table is created only by a get that misses
\* and calls the miss handler, and removed only by the return of the reply
\* lambda of that key.
C14_PendingStep ==
  \A k \in Keys :
    /\ (k \notin PendingKeys /\ k \in PendingKeys') =>
          /\ GetOf(k)
          /\ k \notin ResidentKeys
          /\ fetchCount'[k] = fetchCount[k] + 1
          /\ pending_replies_'[k] = <<nextCb>>
    /\ (k \in PendingKeys /\ k \notin PendingKeys') =>
          /\ Returns
          /\ Top.key = k
          /\ outstanding[k] = 0
    /\ fetchCount'[k] # fetchCount[k] => (k \notin PendingKeys /\ k \in PendingKeys')
\* C14 (in every state and over every step)
C14_PendingLifecycle == []C14_PendingState /\ [][C14_PendingStep]_vars

\* C14 witness: between calls, one fetch is outstanding with its list, and
\* another key's fetch has replied and its list is gone
C14_Witness ==
  /\ stack = <<>>
  /\ ~fault
  /\ \E k \in PendingKeys : outstanding[k] = 1
  /\ \E k \in Keys : fetchCount[k] > 0 /\ outstanding[k] = 0 /\ k \notin PendingKeys

\* a callback of k was handed an entry of the index: k has been resident
WasResident(k) ==
  \E c \in Registered :
    /\ cbKey[c] = k
    /\ \E i \in 1..Len(invoked[c]) :
         invoked[c][i][2] = no_error /\ invoked[c][i][1] # cend

\* C15: once a resident key has been removed, the next get for it that finds
\* no fetch outstanding calls the miss handler again, and is never answered
\* with an entry that existed before that get.
C15_RefetchStep ==
  \A k \in Keys :
    (/\ GetOf(k)
     /\ limit_ >= 1
     /\ WasResident(k)
     /\ k \notin ResidentKeys
     /\ outstanding[k] = 0) =>
      /\ fetchCount'[k] = fetchCount[k] + 1
      /\ invoked'[nextCb] # <<>> => invoked'[nextCb][1][1] \notin 1..(nextNode - 1)
\* C15 (as a property of every step)
C15_RefetchAfterRemoval == [][C15_RefetchStep]_vars

\* C16: a get that misses registers its reply before it calls the miss
\* handler, whether the handler replies inside the call or later; when the
\* handler replies inside the call, the reply lambda finds the list with that
\* one reply and calls it, and when the lambda returns (and get after it) the
\* reply has been called exactly once and the key has no list any more.
C16_SyncStep ==
  /\ \A k \in Keys :
       (GetOf(k) /\ fetchCount'[k] = fetchCount[k] + 1) =>
         /\ pending_replies_'[k] = <<nextCb>>
         /\ IF outstanding' = outstanding
            THEN LET f == stack'[Len(stack')]
                 IN  /\ Fires
                     /\ f.key = k /\ f.idx = 1 /\ f.end = 1
                     /\ invoked'[nextCb] = << <<f.result_iter, f.err>> >>
            ELSE /\ outstanding'[k] = outstanding[k] + 1
                 /\ invoked'[nextCb] = <<>>
                 /\ stack' = stack
  /\ Returns =>
       /\ Len(invoked[pending_replies_[Top.key][1]]) = 1
       /\ invoked' = invoked
       /\ Top.key \notin PendingKeys'
\* C16 (as a property of every step)
C16_SyncCompletion == [][C16_SyncStep]_vars

\* C16 witness: the only get so far has returned, its reply was called once
\* with a value and its key has no list
C16_Witness ==
  /\ nextCb = 2
  /\ stack = <<>>
  /\ Len(invoked[1]) = 1
  /\ invoked[1][1][2] = no_error
  /\ PendingKeys = {}
  /\ fetchCount[cbKey[1]] = 1

\* C17: with a limit of at least 1, a completion that carries a value inserts
\* it at the head of the list, and the cursor handed to the first queued reply
\* is begin(), is the entry find(k) returns at that moment, and holds exactly
\* the supplied value; a completion without a value hands out the end cursor.
C17_CursorStep ==
  Fires =>
    LET f == stack'[Len(stack')]
        first == pending_replies_'[f.key][1]
        it == f.result_iter
    IN  /\ invoked'[first] = << <<it, f.err>> >>
        /\ IF f.err = no_error
           THEN limit_ >= 1 =>
                  /\ it = sentinel_'.older_
                  /\ it \in DOMAIN map_'
                  /\ \A a \in DOMAIN map_' : map_'[a].first = f.key <=> a = it
                  /\ map_'[it].value_ = nextVal
                  /\ Len(TraversalKeys') >= 1
                  /\ TraversalKeys'[1] = f.key
           ELSE /\ it = Sentinel
                /\ map_' = map_
                /\ sentinel_' = sentinel_
\* C17 (as a property of every step)
C17_FirstCursor == [][C17_CursorStep]_vars

\* C17 witness: a completion with a value has just called the first of two
\* queued replies with the new head, in a cache that holds another entry
C17_Witness ==
  /\ limit_ >= 2
  /\ stack # <<>>
  /\ Top.err = no_error
  /\ Top.idx = 1
  /\ Top.end = 2
  /\ Top.result_iter = sentinel_.older_
  /\ size(map_) = 2
  /\ invoked[pending_replies_[Top.key][1]] = << <<Top.result_iter, no_error>> >>
  /\ invoked[pending_replies_[Top.key][2]] = <<>>

\* C18: the set of keys in the index grows only in a completion that carries
\* a value, and by the completed key only; it shrinks only by the eviction in
\* such a completion, by invalidate (by its key) or by flush.  A get that hits,
\* a get that misses (whether it starts a fetch or joins one), find, a
\* completion with an error and the return of a reply leave it unchanged.
C18_ResidentStep ==
  LET added == ResidentKeys' \ ResidentKeys
      removed == ResidentKeys \ ResidentKeys'
      valueCompletion == Fires /\ nextVal' = nextVal + 1
  IN  /\ added # {} =>
           /\ valueCompletion
           /\ added = {stack'[Len(stack')].key}
      /\ removed # {} =>
           \/ valueCompletion /\ removed = evicted'
           \/ \E k \in Keys : invalidate(k) /\ removed = {k}
           \/ flush
      /\ (\E k \in Keys : GetOf(k) /\ ~valueCompletion) => ResidentKeys' = ResidentKeys
      /\ (Fires /\ ~valueCompletion) => ResidentKeys' = ResidentKeys
      /\ retval' # retval => ResidentKeys' = ResidentKeys
      /\ Len(stack') <= Len(stack) /\ stack' # stack => ResidentKeys' = ResidentKeys
\* C18 (as a property of every step)
C18_ResidentFrame == [][C18_ResidentStep]_vars

\* C18 witness: a completion with a value has just added its key and evicted
\* another one
C18_Witness ==
  /\ stack # <<>>
  /\ Top.idx = 1
  /\ Top.err = no_error
  /\ evicted # {}
  /\ Top.key \in ResidentKeys
  /\ Top.key \notin evicted

\* C19: a get for a key that is not in the index and whose fetch is not
\* outstanding (it never started or has replied) registers a new list holding
\* its reply and calls the miss handler, also when it is issued by a reply
\* that the completion of the key's previous fetch is running.
C19_FreshFetchStep ==
  \A k \in Keys :
    (GetOf(k) /\ k \notin ResidentKeys /\ outstanding[k] = 0) =>
      /\ fetchCount'[k] = fetchCount[k] + 1
      /\ pending_replies_'[k] = <<nextCb>>
\* C19 (as a property of every step)
C19_FreshFetch == [][C19_FreshFetchStep]_vars

\* C20: with limit 0 the cache is empty after every operation, no get is a
\* hit, and still every reply called without an error gets a cursor that, at
\* the moment of the call, is an entry of the index holding the key.
C20_LimitZeroStep ==
  limit_ = 0 =>
    /\ size(map_') = 0
    /\ \A k \in Keys : GetOf(k) => k \notin ResidentKeys
    /\ \A c \in 1..MaxGets :
         (invoked'[c] # invoked[c] /\ invoked'[c][Len(invoked'[c])][2] = no_error) =>
           LET it == invoked'[c][Len(invoked'[c])][1]
           IN  /\ it \in DOMAIN map_'
               /\ map_'[it].first = cbKey'[c]
\* C20 (as a property of every step)
C20_LimitZeroCursor == [][C20_LimitZeroStep]_vars

\* C21: with a limit of at least 1, a reply called with no error and a cursor
\* other than end() gets a cursor that is an entry of the index, holding the
\* key it asked for, at the moment of the call; also the second and later
\* replies of a completion whose earlier replies called invalidate, flush or
\* an evicting get.
C21_CursorStep ==
  limit_ >= 1 =>
    \A c \in 1..MaxGets :
      (/\ invoked'[c] # invoked[c]
       /\ invoked'[c][Len(invoked'[c])][2] = no_error
       /\ invoked'[c][Len(invoked'[c])][1] # cend) =>
        LET it == invoked'[c][Len(invoked'[c])][1]
        IN  /\ it \in DOMAIN map_'
            /\ map_'[it].first = cbKey'[c]
\* C21 (as a property of every step)
C21_CursorInIndex == [][C21_CursorStep]_vars

\* what one step of the completion of key a may do: call replies registered
\* by get(a) only, add no entry but that of a, and leave the list of every
\* other key as it is
OnlyKey(a) ==
  /\ \A c \in 1..MaxGets : invoked'[c] # invoked[c] => cbKey'[c] = a
  /\ ResidentKeys' \ ResidentKeys \subseteq {a}
  /\ \A b \in Keys \ {a} :
       /\ b \in PendingKeys' <=> b \in PendingKeys
       /\ b \in PendingKeys => pending_replies_'[b] = pending_replies_[b]
  /\ outstanding' = outstanding \/
       (outstanding'[a] = outstanding[a] - 1 /\
        \A b \in Keys \ {a} : outstanding'[b] = outstanding[b])

\* C22: fetches of distinct keys are independent: every step of the
\* completion of a key (the start of its reply lambda, each further reply it
\* calls, its return) calls only replies registered for that key, inserts at
\* most the entry of that key and leaves the lists of the other keys, and the
\* fetches outstanding for them, unchanged; a fetch can complete whichever
\* other fetches are outstanding.
C22_IndependentStep ==
  /\ Fires => OnlyKey(stack'[Len(stack')].key)
  /\ (ReturnNext \/ ReturnLast) => OnlyKey(Top.key)
  /\ \A a \in Keys :
       (\E o \in Outcomes : Complete(a, o)) =>
          /\ Fires
          /\ stack'[Len(stack')].key = a
\* C22 (as a property of every step)
C22_Independent == [][C22_IndependentStep]_vars

\* C22 witness: of two fetches outstanding together the later one has
\* replied, and the earlier one still has its list and has not replied
C22_Witness ==
  /\ nextCb >= 3
  /\ cbKey[1] # cbKey[2]
  /\ fetchCount[cbKey[1]] = 1
  /\ fetchCount[cbKey[2]] = 1
  /\ outstanding[cbKey[1]] = 1
  /\ cbKey[1] \in PendingKeys
  /\ pending_replies_[cbKey[1]][1] = 1
  /\ invoked[1] = <<>>
  /\ outstanding[cbKey[2]] = 0
  /\ Len(invoked[2]) = 1
  /\ stack = <<>>

\* C23: while no reply lambda is running (between the calls made from
\* outside), no key is both in the index and in the pending table.
C23_DisjointState ==
  (stack = <<>> /\ ~fault) => ResidentKeys \cap PendingKeys = {}
\* C23: a list is created only for a key that is not in the index, and a
\* reply lambda that inserted its key has erased the key's list when it
\* returns.
C23_DisjointStep ==
  /\ \A k \in Keys :
       (k \notin PendingKeys /\ k \in PendingKeys') => k \notin ResidentKeys
  /\ Returns => Top.key \notin PendingKeys'
  /\ Fires => stack'[Len(stack')].key \notin ResidentKeys
\* C23 (in every state and over every step)
C23_IndexPendingDisjoint == []C23_DisjointState /\ [][C23_DisjointStep]_vars

\* C23 witness: between calls, one key is in the index after its completion
\* returned, and another key is pending
C23_Witness ==
  /\ stack = <<>>
  /\ ~fault
  /\ ResidentKeys # {}
  /\ PendingKeys # {}
  /\ \E k \in ResidentKeys : fetchCount[k] >= 1 /\ outstanding[k] = 0

\* C24: no two entries hold the same value or the same key, and every value
\* held was supplied by a completion.
C24_ValueState ==
  /\ \A a, b \in DOMAIN map_ :
       a # b => (map_[a].value_ # map_[b].value_ /\ map_[a].first # map_[b].first)
  /\ \A a \in DOMAIN map_ : map_[a].value_ \in 1..(nextVal - 1)
\* C24: an entry is created only by a completion that carries a value, under
\* the completed key and with exactly the supplied value; as long as it stays
\* in the index its key and value do not change, whatever happens to it or to
\* other entries (touch, insertion, eviction, invalidate); a get that hits
\* and a find expose the entry of the key, with that value.
C24_ValueStep ==
  /\ \A a \in DOMAIN map_' :
       IF a \in DOMAIN map_
       THEN /\ map_'[a].value_ = map_[a].value_
            /\ map_'[a].first = map_[a].first
       ELSE /\ Fires
            /\ nextVal' = nextVal + 1
            /\ map_'[a].first = stack'[Len(stack')].key
            /\ map_'[a].value_ = nextVal
            /\ stack'[Len(stack')].key \notin ResidentKeys
  /\ \A k \in Keys :
       (GetOf(k) /\ k \in ResidentKeys) =>
          LET it == invoked'[nextCb][1][1]
          IN  /\ it \in DOMAIN map_
              /\ map_[it].first = k
              /\ map_'[it].value_ = map_[it].value_
  /\ (retval = NoIter /\ retval' # NoIter /\ retval'.key \in ResidentKeys) =>
       /\ retval'.ptr_ \in DOMAIN map_
       /\ map_'[retval'.ptr_].first = retval'.key
       /\ map_'[retval'.ptr_].value_ = map_[retval'.ptr_].value_
\* C24 (in every state and over every step)
C24_ValueIntegrity == []C24_ValueState /\ [][C24_ValueStep]_vars

\* C24 witness: a get has hit an entry that is older than another entry of
\* the cache and was handed that entry, which holds its own value
C24_Witness ==
  \E c \in Registered :
    /\ fired[c] = <<>>
    /\ Len(invoked[c]) = 1
    /\ invoked[c][1][1] \in DOMAIN map_
    /\ map_[invoked[c][1][1]].first = cbKey[c]
    /\ \E b \in DOMAIN map_ : map_[b].value_ > map_[invoked[c][1][1]].value_

\* C25: once a miss handler has called its reply function a second time, with
\* a value for a key that is in the index, either the program has failed or
\* the list is still well linked and in lockstep with the index.
C25_FailFastOrIntact ==
  misused => (fault \/ (C6_Linkage /\ C5_ListIndexLockstep))

====
